---- MODULE Spec2Model ----
(***************************************************************************)
(* Model of xrasterlib.raster.Raster (band bookkeeping, preprocess,        *)
(* toraster) and of terragpu's SegmentationDataset (construction,          *)
(* gen_dataset, item access).                                              *)
(*                                                                         *)
(* The two classes share no state.  Each group of operations has its own   *)
(* specification over the module's variables:                              *)
(*   Spec         Raster.addindices / Raster.dropindices                   *)
(*   SpecPre      Raster.preprocess                                        *)
(*   SpecExport   Raster.toraster                                          *)
(*   SpecDataset  SegmentationDataset                                      *)
(***************************************************************************)
EXTENDS Integers, Sequences, FiniteSets, TLC

VARIABLES
    bands,        \* Raster.bands: list of band names
    data,         \* Raster.data along dim 'band': <<[band |-> coord, src |-> content]>>
    scales,       \* Raster.data.attrs['scales']
    offsets,      \* Raster.data.attrs['offsets']
    rlast,        \* the last Raster band call: [op, arg, err]
    pix,          \* Raster.data values (flattened) for preprocess
    plast,        \* the last preprocess call: [op, boundary, subs, before]
    prediction,   \* toraster: the prediction array (flattened)
    refmask,      \* toraster: src.read_masks(1) of the reference raster
    nodataval,    \* Raster.nodataval (tuple, one entry per band)
    written,      \* toraster: the array handed to dst.write, or <<>> before
    tlast,        \* the last toraster call: [op, dtype, before]
    fs,           \* dataset_dir on disk: [dirs, images, labels]
    self,         \* the SegmentationDataset object under construction / built
    dlast         \* the last SegmentationDataset call

vars == <<bands, data, scales, offsets, rlast, pix, plast,
          prediction, refmask, nodataval, written, tlast,
          fs, self, dlast>>

rasterVars  == <<bands, data, scales, offsets, rlast>>
preVars     == <<pix, plast>>
exportVars  == <<prediction, refmask, nodataval, written, tlast>>
datasetVars == <<fs, self, dlast>>

Range(s) == {s[i] : i \in 1..Len(s)}

(***************************************************************************)
(* Raster: addindices / dropindices                                        *)
(***************************************************************************)

\* Bounds of the band model.
MaxInit  == 2      \* bands of the raster file that was loaded
MaxBands == 4      \* cap on len(self.bands) (guards addindices)
MaxIdx   == 2      \* longest list of index functions handed to addindices

\* Band names of the loaded file, in file order, and the band ids the index
\* functions return.
FileBands == <<"a", "b", "c", "d", "e", "f">>
IndexIds  == {"x", "y"}
NameOrder == FileBands \o <<"x", "y">>
AllNames  == Range(SubSeq(FileBands, 1, MaxInit)) \cup IndexIds

\* A python list holding the members of S (one fixed enumeration).
ListOf(S) == SelectSeq(NameOrder, LAMBDA n : n \in S)

\* Lists of index functions; a function is identified by the band id it returns.
IndexLists == UNION {[1..n -> IndexIds] : n \in 0..MaxIdx}

\* list.index(x): position (0-based) of the first occurrence.
ListIndex(lst, x) ==
    (CHOOSE i \in 1..Len(lst) : lst[i] = x /\ \A j \in 1..(i-1) : lst[j] # x) - 1

\* [v] * n
Replicate(v, n) == [i \in 1..n |-> v]

\* The state after Raster(filename, bands) / readraster: xr.open_rasterio
\* numbers the band coordinate 1..count and gives one scale and one offset
\* per band.
Loaded(n) ==
    [bands   |-> SubSeq(FileBands, 1, n),
     data    |-> [i \in 1..n |-> [band |-> i, src |-> FileBands[i]]],
     scales  |-> [i \in 1..n |-> i],
     offsets |-> [i \in 1..n |-> 0]]

\* The loop of addindices: one iteration per index function.
RECURSIVE AddLoop(_, _, _, _)
AddLoop(bnds, dat, nbands, indices) ==
    IF indices = <<>>
    THEN [bands |-> bnds, data |-> dat, nbands |-> nbands]
    ELSE LET nb     == nbands + 1
             bandid == Head(indices)
             band   == [band |-> nb, src |-> bandid]
         IN  AddLoop(Append(bnds, bandid), Append(dat, band), nb, Tail(indices))

\* The metadata update that ends addindices: [attrs[key][0]] * nbands.
\* attrs[key][0] raises IndexError on an empty list.
AttrsUpdate(attr, nbands) == Replicate(attr[1], nbands)

addindices(indices) ==
    /\ Len(bands) + Len(indices) <= MaxBands
    /\ LET r == AddLoop(bands, data, Len(bands), indices)
       IN  /\ bands' = r.bands
           /\ data' = r.data
           /\ IF Len(scales) = 0
              THEN /\ UNCHANGED <<scales, offsets>>
                   /\ rlast' = [op |-> "addindices", arg |-> indices, err |-> "IndexError"]
              ELSE /\ scales' = AttrsUpdate(scales, r.nbands)
                   /\ offsets' = AttrsUpdate(offsets, r.nbands)
                   /\ rlast' = [op |-> "addindices", arg |-> indices, err |-> "none"]
    /\ UNCHANGED <<preVars, exportVars, datasetVars>>

\* dropind of dropindices: the 1-based position of each name in self.bands.
DropInd(bnds, names) == {ListIndex(bnds, names[i]) + 1 : i \in 1..Len(names)}

\* DataArray.drop(dim='band', labels=...): selects by coordinate label.
DropLabels(dat, labels) == SelectSeq(dat, LAMBDA b : b.band \notin labels)

\* The band-name filter that ends dropindices.
KeepBands(bnds, names) == SelectSeq(bnds, LAMBDA b : b \notin Range(names))

Coords(dat) == {dat[i].band : i \in 1..Len(dat)}

\* The outcome of dropindices on (bnds, dat): the assert, then the drop by
\* label (KeyError for a label the coordinate lacks, InvalidIndexError when
\* the coordinate holds a label twice), then the filter of the names.
DropError(bnds, dat, names) ==
    IF \E i \in 1..Len(names) : names[i] \notin Range(bnds)
    THEN "AssertionError"
    ELSE IF ~(DropInd(bnds, names) \subseteq Coords(dat))
    THEN "KeyError"
    ELSE IF Cardinality(Coords(dat)) # Len(dat)
    THEN "InvalidIndexError"
    ELSE "none"

dropindices(names) ==
    LET err == DropError(bands, data, names)
    IN  /\ rlast' = [op |-> "dropindices", arg |-> names, err |-> err]
        /\ IF err = "none"
           THEN /\ data' = DropLabels(data, DropInd(bands, names))
                /\ bands' = KeepBands(bands, names)
           ELSE UNCHANGED <<bands, data>>
        /\ UNCHANGED <<scales, offsets>>
        /\ UNCHANGED <<preVars, exportVars, datasetVars>>

IdlePre     == pix = <<>> /\ plast = [op |-> "none"]
IdleExport  == prediction = <<>> /\ refmask = <<>> /\ nodataval = <<>> /\ written = <<>>
               /\ tlast = [op |-> "none"]
IdleDataset == fs = [dirs |-> {}, images |-> {}, labels |-> {}]
               /\ self = [state |-> "none"] /\ dlast = [op |-> "none"]
IdleRaster  == bands = <<>> /\ data = <<>> /\ scales = <<>> /\ offsets = <<>>
               /\ rlast = [op |-> "none"]

Init ==
    /\ \E n \in 1..MaxInit :
          /\ bands = Loaded(n).bands
          /\ data = Loaded(n).data
          /\ scales = Loaded(n).scales
          /\ offsets = Loaded(n).offsets
    /\ rlast = [op |-> "load", arg |-> <<>>, err |-> "none"]
    /\ IdlePre /\ IdleExport /\ IdleDataset

Next ==
    \/ \E indices \in IndexLists : addindices(indices)
    \/ \E S \in SUBSET AllNames : dropindices(ListOf(S))

Spec == Init /\ [][Next]_vars

(***************************************************************************)
(* Raster.preprocess                                                       *)
(***************************************************************************)

MaxLen == 4        \* most values in the raster data

PixVals    == {-1, 0, 1, 2}
Boundaries == {0, 1}
SubsVals   == {0, 5}
OpKeys     == {"<", ">", "=="}     \* "==" is no key of ops

\* ops with operator.ge in the place of operator.gt (and le for lt)
ops_inclusive(op, a, b) ==
    CASE op = "<" -> a <= b
      [] op = ">" -> a >= b

\* ops[op](a, b): operator.lt and operator.gt
ops(op, a, b) ==
    CASE op = "<" -> a < b
      [] op = ">" -> a > b

\* DataArray.where(cond, other): keeps the value where cond holds
where(values, cond, other) ==
    [i \in 1..Len(values) |-> IF cond[i] THEN values[i] ELSE other]

preprocess(op, boundary, subs) ==
    /\ IF op \in {"<", ">"}
       THEN /\ pix' = where(pix, [i \in 1..Len(pix) |-> ops(op, pix[i], boundary)], subs)
            /\ plast' = [op |-> op, boundary |-> boundary, subs |-> subs,
                         before |-> pix, err |-> "none"]
       ELSE /\ pix' = pix
            /\ plast' = [op |-> op, boundary |-> boundary, subs |-> subs,
                         before |-> pix, err |-> "KeyError"]
    /\ UNCHANGED <<rasterVars, exportVars, datasetVars>>

InitPre ==
    /\ pix \in UNION {[1..n -> PixVals] : n \in 1..MaxLen}
    /\ plast = [op |-> "none"]
    /\ IdleRaster /\ IdleExport /\ IdleDataset

NextPre ==
    \E op \in OpKeys, boundary \in Boundaries, subs \in SubsVals :
        preprocess(op, boundary, subs)

SpecPre == InitPre /\ [][NextPre]_vars

(***************************************************************************)
(* Raster.toraster                                                         *)
(***************************************************************************)

MaxPix == 2        \* most pixels in the prediction and in the reference mask

PredVals   == {0, 1, 3}
MaskVals   == {0, 255}             \* what read_masks yields: 0 invalid, 255 valid
NodataVals == {0, 7, 255}
Dtypes     == {"int16", "uint8"}

Pow2(n) == IF n = 8 THEN 256 ELSE 65536

\* numpy's cast of an integer to dtype (wraps modulo 2^width)
AsType(v, dtype) ==
    CASE dtype = "uint8" -> v % Pow2(8)
      [] dtype = "int16" -> ((v + Pow2(16) \div 2) % Pow2(16)) - Pow2(16) \div 2

\* nodatavals[nodatavals == 0] = self.nodataval[0], on read_masks(1).astype(dtype)
MaskToNodata(mask, dtype, nodata) ==
    [i \in 1..Len(mask) |->
        IF AsType(mask[i], dtype) = 0 THEN AsType(nodata, dtype) ELSE AsType(mask[i], dtype)]

\* prediction[nodatavals == nodata] = nodatavals[nodatavals == nodata]
MaskPrediction(pred, nodatavals, nodata) ==
    [i \in 1..Len(pred) |-> IF nodatavals[i] = nodata THEN nodatavals[i] ELSE pred[i]]

toraster(dtype) ==
    LET nodatavals == MaskToNodata(refmask, dtype, nodataval[1])
        masked     == MaskPrediction(prediction, nodatavals, nodataval[1])
    IN  /\ prediction' = masked
        /\ written' = [i \in 1..Len(masked) |-> AsType(masked[i], dtype)]
        /\ tlast' = [op |-> "toraster", dtype |-> dtype, before |-> prediction]
        /\ UNCHANGED <<refmask, nodataval>>
        /\ UNCHANGED <<rasterVars, preVars, datasetVars>>

InitExport ==
    /\ \E n \in 1..MaxPix :
          /\ prediction \in [1..n -> PredVals]
          /\ refmask \in [1..n -> MaskVals]
    /\ nodataval \in [1..1 -> NodataVals]
    /\ written = <<>>
    /\ tlast = [op |-> "none"]
    /\ IdleRaster /\ IdlePre /\ IdleDataset

NextExport == \E dtype \in Dtypes : toraster(dtype)

SpecExport == InitExport /\ [][NextExport]_vars

(***************************************************************************)
(* SegmentationDataset                                                     *)
(*                                                                         *)
(* fs is dataset_dir on disk: the subdirectories that exist and the tile   *)
(* files of images/ and labels/, each [name |-> <<stem, id>>, src |-> the  *)
(* source raster the tile was cut from].                                   *)
(***************************************************************************)

MaxPatches == 2    \* most tiles gen_random_tiles cuts from one scene

\* The rasters the glob patterns can match, in sorted() order.
ImageFiles == <<[dir |-> "d1", stem |-> "s"], [dir |-> "d1", stem |-> "t"],
                [dir |-> "d2", stem |-> "s"]>>
LabelFiles == <<[dir |-> "m1", stem |-> "s"], [dir |-> "m1", stem |-> "t"]>>

\* sorted(glob(regex)) when the pattern matches the files of S
SortedGlob(files, S) == SelectSeq(files, LAMBDA f : f \in S)

\* Path(image).stem
Stem(path) == path.stem

Min(a, b) == IF a <= b THEN a ELSE b

\* f'{filename}_{id}.npy'
TileName(filename, id) == <<filename, id>>

\* The xp.save calls of one scene, in order: image tile, label tile, per id.
RECURSIVE SaveTiles(_, _, _, _)
SaveTiles(image, label, id, ntiles) ==
    IF id >= ntiles
    THEN <<>>
    ELSE <<[dir |-> "images", name |-> TileName(Stem(image), id), src |-> image],
           [dir |-> "labels", name |-> TileName(Stem(image), id), src |-> label]>>
         \o SaveTiles(image, label, id + 1, ntiles)

\* The xp.save calls of gen_dataset: zip(images_list, labels_list) pairs the
\* two sorted lists by position and stops at the shorter one.
RECURSIVE GenWrites(_, _, _, _)
GenWrites(images_list, labels_list, p, ntiles) ==
    IF p > Min(Len(images_list), Len(labels_list))
    THEN <<>>
    ELSE SaveTiles(images_list[p], labels_list[p], 0, ntiles)
         \o GenWrites(images_list, labels_list, p + 1, ntiles)

\* xp.save(path, tile): creates the file or replaces the one of that name
Save(disk, w) ==
    IF w.dir = "images"
    THEN [disk EXCEPT !.images =
             {f \in @ : f.name # w.name} \cup {[name |-> w.name, src |-> w.src]}]
    ELSE [disk EXCEPT !.labels =
             {f \in @ : f.name # w.name} \cup {[name |-> w.name, src |-> w.src]}]

\* The disk after the first m saves of writes.
RECURSIVE ApplyWrites(_, _, _)
ApplyWrites(disk, writes, m) ==
    IF m = 0 THEN disk
    ELSE ApplyWrites(Save(disk, Head(writes)), Tail(writes), m - 1)

\* os.makedirs(images_dir, exist_ok=True); os.makedirs(labels_dir, exist_ok=True)
MakeDirs(disk) == [disk EXCEPT !.dirs = @ \cup {"images", "labels"}]

\* os.listdir: the names of a directory, in an order of the file system's choosing
RECURSIVE ListDir(_)
ListDir(files) ==
    IF files = {} THEN <<>>
    ELSE LET f == CHOOSE g \in files : TRUE
         IN  <<f.name>> \o ListDir(files \ {f})

\* get_filenames: one record per entry of images_dir, the label path built
\* from the same entry name.
get_filenames(disk) ==
    LET names == ListDir(disk.images)
    IN  [i \in 1..Len(names) |->
            [image |-> <<"images", names[i]>>, label |-> <<"labels", names[i]>>]]

\* xp.load(path): the stored tile, or FileNotFoundError
FilesOf(disk, path) ==
    {f \in (IF path[1] = "images" THEN disk.images ELSE disk.labels) : f.name = path[2]}

Load(disk, path) ==
    IF FilesOf(disk, path) = {}
    THEN [err |-> "FileNotFoundError"]
    ELSE [err |-> "none", tile |-> CHOOSE f \in FilesOf(disk, path) : TRUE]

\* open_image / open_mask read self.files[idx]; __init__ sets data_filenames.
open_image(obj, disk, idx) ==
    IF "files" \notin DOMAIN obj
    THEN [err |-> "AttributeError"]
    ELSE Load(disk, obj.files[idx + 1].image)

open_mask(obj, disk, idx) ==
    IF "files" \notin DOMAIN obj
    THEN [err |-> "AttributeError"]
    ELSE Load(disk, obj.files[idx + 1].label)

NoObject == [state |-> "none"]

\* The object __init__ leaves when it returns.
Built(disk, generate_dataset) ==
    [state            |-> "built",
     images_dir       |-> "images",
     labels_dir       |-> "labels",
     generate_dataset |-> generate_dataset,
     data_filenames   |-> get_filenames(disk),
     transform        |-> FALSE]

Failed(err, disk, ran, n, k) ==
    /\ fs' = disk
    /\ self' = NoObject
    /\ dlast' = [op |-> "construct", err |-> err, generated |-> ran, n |-> n, k |-> k]

\* The end of __init__: the emptiness assert, then get_filenames.
Finish(disk, generate_dataset, n, k) ==
    IF disk.images = {}
    THEN Failed("AssertionError: images_dir is empty", disk, generate_dataset, n, k)
    ELSE /\ fs' = disk
         /\ self' = Built(disk, generate_dataset)
         /\ dlast' = [op |-> "construct", err |-> "none",
                      generated |-> generate_dataset, n |-> n, k |-> k]

\* SegmentationDataset(...).  images_glob / labels_glob are what the patterns
\* match; saved is the number of xp.save calls that return before gen_dataset
\* raises (all of them when it does not).
construct(dataset_dir, generate_dataset, images_regex, labels_regex, images_glob, labels_glob, max_patches, saved) ==
    /\ IF dataset_dir = "None"
       THEN Failed("AssertionError: dataset_dir", fs, FALSE, 0, max_patches)
       ELSE LET made == MakeDirs(fs)
            IN  IF ~generate_dataset
                THEN Finish(made, FALSE, 0, max_patches)
                ELSE IF images_regex = "None"
                THEN Failed("AssertionError: images_regex", made, FALSE, 0, max_patches)
                ELSE IF labels_regex = "None"
                THEN Failed("AssertionError: labels_regex", made, FALSE, 0, max_patches)
                ELSE LET images_list == SortedGlob(ImageFiles, images_glob)
                         labels_list == SortedGlob(LabelFiles, labels_glob)
                         n      == Min(Len(images_list), Len(labels_list))
                         writes == GenWrites(images_list, labels_list, 1, max_patches)
                     IN  /\ saved <= Len(writes)
                         /\ IF saved < Len(writes)
                            THEN Failed("IOError", ApplyWrites(made, writes, saved),
                                        FALSE, n, max_patches)
                            ELSE Finish(ApplyWrites(made, writes, saved), TRUE,
                                        n, max_patches)
    /\ UNCHANGED <<rasterVars, preVars, exportVars>>

\* dataset[idx]
getitem(idx) ==
    /\ self.state = "built"
    /\ idx < Len(self.data_filenames)
    /\ LET x == open_image(self, fs, idx)
           y == open_mask(self, fs, idx)
       IN  dlast' = IF x.err # "none" THEN [op |-> "getitem", idx |-> idx, err |-> x.err]
                    ELSE IF y.err # "none" THEN [op |-> "getitem", idx |-> idx, err |-> y.err]
                    ELSE [op |-> "getitem", idx |-> idx, err |-> "none",
                          x |-> x.tile, y |-> y.tile]
    /\ UNCHANGED <<fs, self>>
    /\ UNCHANGED <<rasterVars, preVars, exportVars>>

\* len(dataset)
len ==
    /\ self.state = "built"
    /\ dlast' = [op |-> "len", err |-> "none", result |-> Len(self.data_filenames)]
    /\ UNCHANGED <<fs, self>>
    /\ UNCHANGED <<rasterVars, preVars, exportVars>>

MaxSaves == 2 * Len(LabelFiles) * MaxPatches

InitDataset ==
    /\ fs = [dirs |-> {}, images |-> {}, labels |-> {}]
    /\ self = NoObject
    /\ dlast = [op |-> "none"]
    /\ IdleRaster /\ IdlePre /\ IdleExport

\* The calls of the constructor: every argument the call reads varies; an
\* argument the call never reads (the globs without generation, say) is left
\* at one value.
ConstructCalls ==
    {c \in [dataset_dir : {"None", "dataset"}, generate_dataset : BOOLEAN,
            images_regex : {"None", "*.tif"}, labels_regex : {"None", "*.tif"},
            images_glob : SUBSET Range(ImageFiles),
            labels_glob : SUBSET Range(LabelFiles),
            max_patches : 1..MaxPatches, saved : 0..MaxSaves] :
        LET runs == /\ c.dataset_dir # "None" /\ c.generate_dataset
                    /\ c.images_regex # "None" /\ c.labels_regex # "None"
        IN  /\ c.dataset_dir = "None" => (~c.generate_dataset /\ c.images_regex = "None")
            /\ ~c.generate_dataset => c.images_regex = "None"
            /\ c.images_regex = "None" => c.labels_regex = "None"
            /\ ~runs => /\ c.images_glob = {} /\ c.labels_glob = {}
                        /\ c.max_patches = 1 /\ c.saved = 0
            /\ runs => c.saved <= Len(GenWrites(SortedGlob(ImageFiles, c.images_glob),
                                                SortedGlob(LabelFiles, c.labels_glob),
                                                1, c.max_patches))}

NextDataset ==
    \/ \E c \in ConstructCalls :
          construct(c.dataset_dir, c.generate_dataset, c.images_regex, c.labels_regex,
                    c.images_glob, c.labels_glob, c.max_patches, c.saved)
    \/ \E idx \in 0..(MaxSaves - 1) : getitem(idx)
    \/ len

SpecDataset == InitDataset /\ [][NextDataset]_vars

(***************************************************************************)
(* Claims about the band bookkeeping (checked under Spec).                 *)
(***************************************************************************)

\* C1: after any sequence of addindices and dropindices calls on a loaded
\* raster, the band-name list is as long as the band axis of the data.
C1_BandsMatchBandAxis == Len(bands) = Len(data)

\* C2: after every addindices call and every successful dropindices call the
\* 'scales' and 'offsets' lists have one entry per band name.
C2_ScalesOffsetsInSync ==
    (rlast.op \in {"addindices", "dropindices"} /\ rlast.err = "none")
        => (Len(scales) = Len(bands) /\ Len(offsets) = Len(bands))

\* C3: a successful dropindices(names) removes from the data exactly the
\* bands named in names, and afterwards the k-th band name names the k-th
\* band of the data.
C3_DropRemovesNamedBands ==
    [][(rlast'.op = "dropindices" /\ rlast'.err = "none")
          => /\ data' = SelectSeq(data, LAMBDA b : b.src \notin Range(rlast'.arg))
             /\ Len(data') = Len(bands')
             /\ \A k \in 1..Len(bands') : data'[k].src = bands'[k]]_vars

\* C4: dropindices with a name that is not a band name fails with the
\* assertion and changes neither data nor band names; dropindices with all
\* the band names leaves no band name and no band in the data.
C4_DropUnknownFailsDropAllEmpties ==
    [][rlast'.op = "dropindices"
          => /\ (\E n \in Range(rlast'.arg) : n \notin Range(bands))
                   => (rlast'.err = "AssertionError" /\ data' = data /\ bands' = bands)
             /\ (Range(rlast'.arg) = Range(bands))
                   => (bands' = <<>> /\ data' = <<>>)]_vars

\* The half of C4 that the code keeps: an unknown name fails the assertion
\* before anything is changed.
DropUnknownLeavesRasterUnchanged ==
    [][(rlast'.op = "dropindices" /\ \E n \in Range(rlast'.arg) : n \notin Range(bands))
          => (rlast'.err = "AssertionError" /\ data' = data /\ bands' = bands)]_vars

(***************************************************************************)
(* Claims about preprocess (SpecPre) and toraster (SpecExport).            *)
(***************************************************************************)

\* C10: after preprocess(op, boundary, subs) with op '<' or '>', every value v
\* with 'v op boundary' is unchanged and every other value, v = boundary
\* included, is subs.
C10_PreprocessKeepsSatisfying ==
    plast.op \in {"<", ">"} =>
        /\ Len(pix) = Len(plast.before)
        /\ \A i \in 1..Len(pix) :
              LET v == plast.before[i]
              IN  IF \/ (plast.op = ">" /\ v >= plast.boundary + 1)
                     \/ (plast.op = "<" /\ v + 1 <= plast.boundary)
                  THEN pix[i] = v
                  ELSE pix[i] = plast.subs

\* C10 witness: [-1, 0, 1, 2] with op '>', boundary 0, subs 0 became [0, 0, 1, 2].
C10_Witness ==
    /\ plast.op = ">" /\ plast.boundary = 0 /\ plast.subs = 0
    /\ plast.before = <<-1, 0, 1, 2>>
    /\ pix = <<0, 0, 1, 2>>

\* C5: toraster writes the nodata value where the reference mask is zero and
\* the original prediction value everywhere else.
C5_MaskedExactlyWhereMaskZero ==
    tlast.op = "toraster" =>
        \A i \in 1..Len(written) :
            written[i] = IF refmask[i] = 0 THEN nodataval[1] ELSE tlast.before[i]

(***************************************************************************)
(* Claims about SegmentationDataset (checked under SpecDataset).           *)
(***************************************************************************)

\* C6: whenever a SegmentationDataset stands constructed, the image file of
\* every manifest record has a label file of the same name in labels/.
C6_EveryImageHasLabel ==
    self.state = "built" =>
        \A i \in 1..Len(self.data_filenames) :
            FilesOf(fs, self.data_filenames[i].label) # {}

\* C7: dataset[idx] returns the image tile and the label tile stored at the
\* paths of manifest record idx, and len(dataset) is the number of records.
C7_GetItemLoadsRecord ==
    /\ dlast.op = "getitem" =>
          /\ dlast.err = "none"
          /\ dlast.x \in FilesOf(fs, self.data_filenames[dlast.idx + 1].image)
          /\ dlast.y \in FilesOf(fs, self.data_filenames[dlast.idx + 1].label)
    /\ dlast.op = "len" => dlast.result = Len(self.data_filenames)

\* The half of C7 that the code keeps: len(dataset) is the manifest length.
LenIsManifestLength ==
    dlast.op = "len" => dlast.result = Len(self.data_filenames)

\* C8: gen_dataset run to its end on empty images/ and labels/ over n matched
\* pairs of k tiles each leaves n*k image tile files and n*k label tile files.
C8_EveryTileInItsOwnFile ==
    [][(dlast'.op = "construct" /\ dlast'.generated
            /\ fs.images = {} /\ fs.labels = {})
          => /\ Cardinality(fs'.images) = dlast'.n * dlast'.k
             /\ Cardinality(fs'.labels) = dlast'.n * dlast'.k]_vars

\* C9: a constructor call that fails on dataset_dir, images_regex or
\* labels_regex creates no directory and writes no file, and a call that
\* leaves images/ empty fails.
C9_ConfigErrorsTouchNothing ==
    [][dlast'.op = "construct"
          => /\ dlast'.err \in {"AssertionError: dataset_dir",
                                "AssertionError: images_regex",
                                "AssertionError: labels_regex"} => fs' = fs
             /\ fs'.images = {} => dlast'.err # "none"]_vars

\* The parts of C9 that the code keeps: an unset dataset_dir fails before
\* anything on disk is touched, an unset pattern fails before any tile is
\* written, and an empty images/ fails the construction.
ConfigErrorsWriteNoTile ==
    [][dlast'.op = "construct"
          => /\ dlast'.err = "AssertionError: dataset_dir" => fs' = fs
             /\ dlast'.err \in {"AssertionError: images_regex",
                                "AssertionError: labels_regex"}
                   => (fs'.images = fs.images /\ fs'.labels = fs.labels)
             /\ fs'.images = {} => dlast'.err # "none"]_vars

====
